---- MODULE Spec2Model ----
(***************************************************************************)
(* Model of LanceDBManager (backend/src/routes/manager.py): one table of   *)
(* the database, the manager's cached embedder, and the manager's          *)
(* operations add_data, update_data, fetch_data, vector_search,            *)
(* delete_rows and delete_duplicates.                                      *)
(*                                                                         *)
(* The database engine is an external collaborator.  It is modelled by     *)
(* what the manager relies on: a table is a sequence of rows in a stable   *)
(* storage order, append adds rows at the end, an update or delete acts on *)
(* the rows its where clause matches, limit/offset cut a window out of the *)
(* matching rows, and an engine call that raises has no effect.            *)
(*                                                                         *)
(* Specifications:                                                         *)
(*   Spec        one add_data call on any table, and the same call run a   *)
(*               second time;                                              *)
(*   SpecUpdate  one update_data call on any table;                        *)
(*   SpecFetch   one fetch_data call on any table;                         *)
(*   SpecDedup   one delete_duplicates call on any table;                  *)
(*   SpecSeq     any sequence of add_data / update_data / delete_rows /    *)
(*               vector_search calls keyed on the field "id";              *)
(*   SpecConc    two callers running add_data concurrently, one engine     *)
(*               call per step.                                            *)
(***************************************************************************)
EXTENDS Integers, Sequences, FiniteSets, TLC

\* ---------------------------------------------------------------- bounds
MaxRows == 3        \* rows of a table in an initial state
MaxBatch == 2       \* records in one input batch of add_data
MaxUpdateBatch == 3 \* records in one input batch of update_data
MaxPage == 3        \* page numbers tried by fetch_data
MaxPerPage == 2     \* page sizes tried by fetch_data
MaxConcRows == 1    \* rows of the initial table of the concurrent runs
MaxConcBatch == 1   \* records in a batch of a concurrent caller

\* ------------------------------------------------------------------ data
Ids == {"a", "b"}
Texts == {"x", "y"}
Fields == {"id", "text"}
Records == [id : Ids, text : Texts]
UniqueFields == {"", "id", "text"}

SeqsUpTo(S, n) == UNION {[1..k -> S] : k \in 0..n}
Tables == SeqsUpTo(Records, MaxRows)
Batches == SeqsUpTo(Records, MaxBatch)
UpdateBatches == SeqsUpTo(Records, MaxUpdateBatch)

Min(x, y) == IF x < y THEN x ELSE y
Range(s) == {s[i] : i \in 1..Len(s)}
Column(s, f) == {s[i][f] : i \in 1..Len(s)}
NoRepeat(s, f) == \A i, j \in 1..Len(s) : s[i][f] = s[j][f] => i = j

\* A filter / where clause: none, or  <field> = "<value>".
NoFilter == [kind |-> "none"]
Conds == {[kind |-> "eq", field |-> f, value |-> v] :
            f \in Fields, v \in Ids \cup Texts}
Filters == {NoFilter} \cup Conds

\* The engine's evaluation of a where clause on one row.
Matches(row, clause) ==
  \/ clause.kind = "none"
  \/ row[clause.field] = clause.value

VARIABLES
  table,        \* the rows of the table, in the engine's storage order
  embedder,     \* self.embedder: 0 is None, k > 0 the k-th constructed provider
  constructed,  \* number of providers get_embedder has constructed
  call,         \* the last completed call: its arguments and its outcome
  procs         \* concurrent add_data callers: position and locals of each

vars == <<table, embedder, constructed, call, procs>>

\* -------------------------------------------------------------- add_data
\* Variant of _get_unique_ids whose limit is one row short.
_get_unique_ids_short(t, unique_field, n) ==
  [i \in 1..Min(n - 1, Len(t)) |-> t[i][unique_field]]

\* _get_unique_ids: search().limit(n).select([unique_field]), n = count_rows()
_get_unique_ids(t, unique_field, n) ==
  [i \in 1..Min(n, Len(t)) |-> t[i][unique_field]]

\* Variant of NewIds that leaves out the difference with existing_ids.
NewIdsNoDiff(data, unique_field, existing_ids) ==
  Column(data, unique_field)

\* list(set(new_ids) - set(existing_ids))
NewIds(data, unique_field, existing_ids) ==
  Column(data, unique_field) \ Range(existing_ids)

\* Variant of NewData that leaves out the filter.
NewDataNoFilter(data, unique_field, new_ids) ==
  data

\* [item for item in data if item[unique_field] in new_ids]
NewData(data, unique_field, new_ids) ==
  SelectSeq(data, LAMBDA item : item[unique_field] \in new_ids)

\* Variant of add_data_except that re-raises, as update_data's handler does.
add_data_except_reraise(erred) ==
  [raised |-> erred, ret |-> IF erred THEN "Exception" ELSE "None"]

\* except Exception as e: logging.error(...)   (no raise)
add_data_except(erred) ==
  [raised |-> FALSE, ret |-> "None"]

\* The engine call of add_data that raises, if it is reached.
AddFaults == {"none", "open_table", "scan", "add"}

\* One run of add_data on table t: the table it leaves and what it did.
add_data_call(t, data, unique_field, fault) ==
  IF unique_field = ""
  THEN [table |-> t, raised |-> TRUE, ret |-> "ValueError", erred |-> FALSE,
        added |-> <<>>, wrote |-> FALSE]
  ELSE LET existing_ids == _get_unique_ids(t, unique_field, Len(t))
           new_ids == NewIds(data, unique_field, existing_ids)
           new_data == NewData(data, unique_field, new_ids)
           scanned == fault \notin {"open_table", "scan"}
           wrote == scanned /\ Len(new_data) > 0 /\ fault # "add"
           erred == ~scanned \/ (Len(new_data) > 0 /\ fault = "add")
           out == add_data_except(erred)
       IN [table |-> IF wrote THEN t \o new_data ELSE t,
           raised |-> out.raised, ret |-> out.ret, erred |-> erred,
           added |-> IF wrote THEN new_data ELSE <<>>,
           wrote |-> wrote]

add_data(data, unique_field, fault) ==
  LET r == add_data_call(table, data, unique_field, fault)
  IN /\ table' = r.table
     /\ call' = [op |-> "add_data", pre |-> table, data |-> data,
                 uf |-> unique_field, fault |-> fault, raised |-> r.raised,
                 ret |-> r.ret, erred |-> r.erred, added |-> r.added,
                 wrote |-> r.wrote, repeat |-> FALSE,
                 first_erred |-> FALSE, first_added |-> 0]
     /\ UNCHANGED <<embedder, constructed, procs>>

\* The caller runs add_data again with the same table name, batch and field.
add_data_again(fault) ==
  /\ call.op = "add_data"
  /\ ~call.repeat
  /\ LET r == add_data_call(table, call.data, call.uf, fault)
     IN /\ table' = r.table
        /\ call' = [op |-> "add_data", pre |-> table, data |-> call.data,
                    uf |-> call.uf, fault |-> fault, raised |-> r.raised,
                    ret |-> r.ret, erred |-> r.erred, added |-> r.added,
                    wrote |-> r.wrote, repeat |-> TRUE,
                    first_erred |-> call.erred,
                    first_added |-> Len(call.added)]
  /\ UNCHANGED <<embedder, constructed, procs>>

\* ----------------------------------------------------------- update_data
\* updates = {k: v for k, v in row.items() if k != unique_field}
Updates(row, unique_field) ==
  [f \in Fields \ {unique_field} |-> row[f]]

\* where_clause = f"{unique_field} = \"{unique_value}\""
WhereClause(unique_field, unique_value) ==
  [kind |-> "eq", field |-> unique_field, value |-> unique_value]

\* table.update(values=updates, where=where_clause) in the engine
TableUpdate(t, values, where) ==
  [i \in 1..Len(t) |->
     IF Matches(t[i], where)
     THEN [f \in Fields |-> IF f \in DOMAIN values THEN values[f] ELSE t[i][f]]
     ELSE t[i]]

\* Variant of update_data_loop that skips the failing record and goes on.
RECURSIVE update_data_loop_continue(_, _, _, _, _)
update_data_loop_continue(t, data, unique_field, i, fail_at) ==
  IF i > Len(data)
  THEN [table |-> t, raised |-> fail_at \in 1..Len(data), ret |-> Len(data),
        attempted |-> Len(data)]
  ELSE IF i = fail_at
  THEN update_data_loop_continue(t, data, unique_field, i + 1, fail_at)
  ELSE update_data_loop_continue(
         TableUpdate(t, Updates(data[i], unique_field),
                     WhereClause(unique_field, data[i][unique_field])),
         data, unique_field, i + 1, fail_at)

\* The for loop of update_data from record i on; table.update raises on
\* record fail_at (0: on none).  attempted counts the table.update calls.
RECURSIVE update_data_loop(_, _, _, _, _)
update_data_loop(t, data, unique_field, i, fail_at) ==
  IF i > Len(data)
  THEN [table |-> t, raised |-> FALSE, ret |-> i - 1, attempted |-> i - 1]
  ELSE IF i = fail_at
  THEN [table |-> t, raised |-> TRUE, ret |-> "Exception", attempted |-> i]
  ELSE update_data_loop(
         TableUpdate(t, Updates(data[i], unique_field),
                     WhereClause(unique_field, data[i][unique_field])),
         data, unique_field, i + 1, fail_at)

\* One run of update_data on table t.
update_data_call(t, data, unique_field, fail_at) ==
  IF unique_field = ""
  THEN [table |-> t, raised |-> TRUE, ret |-> "ValueError", attempted |-> 0]
  ELSE update_data_loop(t, data, unique_field, 1, fail_at)

update_data(data, unique_field, fail_at) ==
  LET r == update_data_call(table, data, unique_field, fail_at)
  IN /\ fail_at <= Len(data)
     /\ table' = r.table
     /\ call' = [op |-> "update_data", pre |-> table, data |-> data,
                 uf |-> unique_field, fail_at |-> fail_at,
                 raised |-> r.raised, ret |-> r.ret,
                 attempted |-> r.attempted]
     /\ UNCHANGED <<embedder, constructed, procs>>

\* ------------------------------------------------------------ fetch_data
\* The positions (row ids) of the rows of t that the filter matches, in
\* storage order.
Matching(t, filter) ==
  SelectSeq([i \in 1..Len(t) |-> i], LAMBDA i : Matches(t[i], filter))

\* query.where(filter).limit(limit).offset(offset) in the engine
Query(t, filter, limit, offset) ==
  LET m == Matching(t, filter)
  IN SubSeq(m, offset + 1, Min(offset + limit, Len(m)))

\* Variant of FetchOffset with a 0-based page number.
FetchOffsetNextPage(page, per_page) == page * per_page

\* .offset((page - 1) * per_page)
FetchOffset(page, per_page) == (page - 1) * per_page

\* The query fetch_data builds (with or without where) and its rows.
FetchRows(t, page, per_page, filter) ==
  IF per_page # -1
  THEN Query(t, filter, per_page, FetchOffset(page, per_page))
  ELSE Query(t, filter, Len(t), 0)

Pages == 1..MaxPage
PerPages == {-1} \cup 1..MaxPerPage
FetchFaults == {"none", "engine"}

fetch_data(page, per_page, filter, fault) ==
  /\ call' = [op |-> "fetch_data", page |-> page, per_page |-> per_page,
              filter |-> filter, raised |-> fault # "none",
              ret |-> IF fault = "none"
                      THEN FetchRows(table, page, per_page, filter)
                      ELSE <<>>]
  /\ UNCHANGED <<table, embedder, constructed, procs>>

\* The operations called so far in a sequence of calls.
Seen(op) == (IF call.op = "init" THEN {} ELSE call.seen) \cup {op}

\* ----------------------------------------------------------- delete_rows
\* table.delete(where=condition) in the engine
TableDelete(t, condition) ==
  SelectSeq(t, LAMBDA row : ~Matches(row, condition))

DeleteFaults == {"none", "engine"}

delete_rows(condition, fault) ==
  /\ table' = IF fault = "none" THEN TableDelete(table, condition) ELSE table
  /\ call' = [op |-> "delete_rows", raised |-> fault # "none",
              seen |-> Seen("delete_rows")]
  /\ UNCHANGED <<embedder, constructed, procs>>

\* ----------------------------------------------------- delete_duplicates
Key(row, subset) == [f \in subset |-> row[f]]

\* df.drop_duplicates(subset=subset): a row is kept unless a row before it
\* has the same values in the subset columns (keep="first").
RECURSIVE DropFrom(_, _, _, _)
DropFrom(df, subset, i, seen) ==
  IF i > Len(df) THEN <<>>
  ELSE IF Key(df[i], subset) \in seen
  THEN DropFrom(df, subset, i + 1, seen)
  ELSE <<df[i]>> \o DropFrom(df, subset, i + 1, seen \cup {Key(df[i], subset)})

\* Variant of drop_duplicates with keep="last".
RECURSIVE drop_duplicates_keep_last(_, _)
drop_duplicates_keep_last(df, subset) ==
  IF df = <<>> THEN <<>>
  ELSE IF \E j \in 2..Len(df) : Key(df[j], subset) = Key(df[1], subset)
  THEN drop_duplicates_keep_last(Tail(df), subset)
  ELSE <<df[1]>> \o drop_duplicates_keep_last(Tail(df), subset)

drop_duplicates(df, subset) == DropFrom(df, subset, 1, {})

Subsets == SUBSET Fields \ {{}}
DedupFaults == {"none", "read", "add"}

\* One run of delete_duplicates on table t.
delete_duplicates_call(t, subset, fault) ==
  LET df_unique == drop_duplicates(t, subset)
      duplicates_removed == Len(t) - Len(df_unique)
      raised == fault = "read" \/ (fault = "add" /\ duplicates_removed > 0)
      wrote == ~raised /\ duplicates_removed > 0
  IN [table |-> IF wrote THEN df_unique ELSE t,
      raised |-> raised, wrote |-> wrote,
      ret |-> IF raised THEN "Exception" ELSE duplicates_removed]

delete_duplicates(subset, fault) ==
  LET r == delete_duplicates_call(table, subset, fault)
  IN /\ table' = r.table
     /\ call' = [op |-> "delete_duplicates", pre |-> table,
                 subset |-> subset, raised |-> r.raised, wrote |-> r.wrote,
                 ret |-> r.ret]
     /\ UNCHANGED <<embedder, constructed, procs>>

\* --------------------------------------------------------- vector_search
\* Variant of _get_embedder without the None test.
_get_embedder_always(e, c) == [embedder |-> c + 1, constructed |-> c + 1]

\* _get_embedder: construct the provider unless self.embedder is set; the
\* k-th provider constructed is the instance k.  Gives [embedder, constructed].
_get_embedder(e, c) ==
  IF e = 0
  THEN [embedder |-> c + 1, constructed |-> c + 1]
  ELSE [embedder |-> e, constructed |-> c]

\* The step of vector_search that raises.
SearchFaults == {"none", "open_table", "get_embedder", "generate", "search"}

vector_search(fault) ==
  LET reached == fault # "open_table"
      \* get_embedder(provider) raises only when it is called
      built == reached /\ ~(fault = "get_embedder" /\ embedder = 0)
      g == _get_embedder(embedder, constructed)
  IN /\ embedder' = IF built THEN g.embedder ELSE embedder
     /\ constructed' = IF built THEN g.constructed ELSE constructed
     /\ call' = [op |-> "vector_search",
                 raised |-> ~built \/ fault \in {"generate", "search"},
                 had |-> embedder,
                 used |-> IF built THEN g.embedder ELSE 0,
                 seen |-> Seen("vector_search")]
     /\ UNCHANGED <<table, procs>>

\* ------------------------------------------- sequences keyed on field "id"
UniqueTables == {t \in Tables : NoRepeat(t, "id")}
UniqueBatches == {d \in Batches : NoRepeat(d, "id")}

seq_add_data(data, fault) ==
  LET r == add_data_call(table, data, "id", fault)
  IN /\ Len(table) <= MaxRows
     /\ table' = r.table
     /\ call' = [op |-> "add_data", raised |-> r.raised,
                 seen |-> Seen("add_data")]
     /\ UNCHANGED <<embedder, constructed, procs>>

seq_update_data(data, fail_at) ==
  LET r == update_data_call(table, data, "id", fail_at)
  IN /\ fail_at <= Len(data)
     /\ table' = r.table
     /\ call' = [op |-> "update_data", raised |-> r.raised,
                 seen |-> Seen("update_data")]
     /\ UNCHANGED <<embedder, constructed, procs>>

InitSeq ==
  /\ table \in UniqueTables
  /\ embedder = 0
  /\ constructed = 0
  /\ call = [op |-> "init"]
  /\ procs = <<>>

NextSeq ==
  \/ \E data \in UniqueBatches, fault \in AddFaults : seq_add_data(data, fault)
  \/ \E data \in Batches, fail_at \in 0..MaxBatch : seq_update_data(data, fail_at)
  \/ \E condition \in Conds, fault \in DeleteFaults : delete_rows(condition, fault)
  \/ \E fault \in SearchFaults : vector_search(fault)

SpecSeq == InitSeq /\ [][NextSeq]_vars

\* ----------------------------------------------- concurrent add_data calls
Callers == {1, 2}
ConcTables == SeqsUpTo(Records, MaxConcRows)
ConcBatches == SeqsUpTo(Records, MaxConcBatch)

\* Variant of AppendExisting that reads the column again at the append.
AppendExistingFresh(existing_ids, t) == _get_unique_ids(t, "id", Len(t))

\* The existing_ids add_data filters with when it appends: the list it read
\* before (the table is not read again).
AppendExisting(existing_ids, t) == existing_ids

\* add_data is entered and opens the table.
ConcOpen(p, data) ==
  /\ procs[p].pc = "idle"
  /\ procs' = [procs EXCEPT ![p].pc = "opened", ![p].data = data]
  /\ UNCHANGED <<table, embedder, constructed, call>>

\* _get_unique_ids: table.count_rows()
ConcCount(p) ==
  /\ procs[p].pc = "opened"
  /\ procs' = [procs EXCEPT ![p].pc = "counted", ![p].n = Len(table)]
  /\ UNCHANGED <<table, embedder, constructed, call>>

\* limit(n) of a plain scan in the engine: a limit of 0 yields no row or, in
\* the engine versions that read it as "no limit", every row.
ScanLimits(n, t) == IF n = 0 THEN {0, Len(t)} ELSE {n}

\* _get_unique_ids: table.search().limit(n).select([unique_field]).to_list()
ConcScan(p) ==
  /\ procs[p].pc = "counted"
  /\ \E limit \in ScanLimits(procs[p].n, table) :
       procs' = [procs EXCEPT ![p].pc = "scanned",
                              ![p].existing = _get_unique_ids(table, "id", limit)]
  /\ UNCHANGED <<table, embedder, constructed, call>>

\* the set difference, the filter and table.add(new_data)
ConcAppend(p) ==
  /\ procs[p].pc = "scanned"
  /\ LET existing_ids == AppendExisting(procs[p].existing, table)
         new_data == NewData(procs[p].data, "id",
                             NewIds(procs[p].data, "id", existing_ids))
     IN /\ table' = table \o new_data
        /\ procs' = [procs EXCEPT ![p].pc = "done", ![p].added = new_data]
  /\ UNCHANGED <<embedder, constructed, call>>

InitConc ==
  /\ table \in ConcTables
  /\ embedder = 0
  /\ constructed = 0
  /\ call = [op |-> "init"]
  /\ procs = [p \in Callers |->
                [pc |-> "idle", data |-> <<>>, n |-> 0, existing |-> <<>>,
                 added |-> <<>>]]

NextConc ==
  \E p \in Callers :
    \/ \E data \in ConcBatches : ConcOpen(p, data)
    \/ ConcCount(p)
    \/ ConcScan(p)
    \/ ConcAppend(p)

SpecConc == InitConc /\ [][NextConc]_vars

\* ------------------------------------------------- one call on any table
Idle == call.op = "init"

Init ==
  /\ table \in Tables
  /\ embedder = 0
  /\ constructed = 0
  /\ call = [op |-> "init"]
  /\ procs = <<>>

Next ==
  \/ /\ Idle
     /\ \E data \in Batches, uf \in UniqueFields, fault \in AddFaults :
          add_data(data, uf, fault)
  \/ \E fault \in AddFaults : add_data_again(fault)

Spec == Init /\ [][Next]_vars

NextUpdate ==
  /\ Idle
  /\ \E data \in UpdateBatches, uf \in UniqueFields,
        fail_at \in 0..MaxUpdateBatch :
       update_data(data, uf, fail_at)

SpecUpdate == Init /\ [][NextUpdate]_vars

NextFetch ==
  /\ Idle
  /\ \E page \in Pages, per_page \in PerPages, filter \in Filters,
        fault \in FetchFaults :
       fetch_data(page, per_page, filter, fault)

SpecFetch == Init /\ [][NextFetch]_vars

NextDedup ==
  /\ Idle
  /\ \E subset \in Subsets, fault \in DedupFaults :
       delete_duplicates(subset, fault)

SpecDedup == Init /\ [][NextDedup]_vars

\* ================================================================ claims
\* Number of rows of t whose field f holds v.
Count(t, f, v) == Cardinality({i \in 1..Len(t) : t[i][f] = v})

\* C1: a single add_data call with a non-empty unique_field appends (at the
\* end of the table) no record whose unique-field value is in the table when
\* the call starts; when every unique-field value of the batch is already
\* there, it appends nothing and does not write.
C1_AddSkipsExisting ==
  (call.op = "add_data" /\ call.uf # "") =>
    /\ table = call.pre \o call.added
    /\ \A i \in 1..Len(call.added) :
         call.added[i][call.uf] \notin Column(call.pre, call.uf)
    /\ Column(call.data, call.uf) \subseteq Column(call.pre, call.uf)
         => (call.added = <<>> /\ ~call.wrote /\ table = call.pre)

\* A call whose batch holds both a value that exists and one that is new.
C1_Witness ==
  /\ call.op = "add_data" /\ call.uf = "id" /\ call.fault = "none"
  /\ ~call.repeat
  /\ call.added # <<>>
  /\ Len(call.added) < Len(call.data)
  /\ Column(call.data, "id") \cap Column(call.pre, "id") # {}

\* C2: when the batch of an add_data call holds several records with one
\* unique-field value that is not in the table, exactly one of them is
\* appended: the table then holds exactly one row with that value.
C2_BatchDuplicatesCollapse ==
  (call.op = "add_data" /\ call.uf # "" /\ ~call.erred) =>
    \A v \in Column(call.data, call.uf) \ Column(call.pre, call.uf) :
      Count(table, call.uf, v) = 1

\* C3: add_data run twice in sequence with the same batch and unique_field
\* (the first run meeting no engine error) leaves the table as the first run
\* left it: the second run appends nothing.
C3_AddTwiceSameAsOnce ==
  (call.op = "add_data" /\ call.repeat /\ ~call.first_erred) =>
    /\ table = call.pre
    /\ call.added = <<>>
    /\ ~call.wrote

\* A second run after a first run that appended rows.
C3_Witness ==
  /\ call.op = "add_data" /\ call.repeat /\ ~call.first_erred
  /\ call.first_added > 0
  /\ call.fault = "none"

MatchSet(filter) == {i \in 1..Len(table) : Matches(table[i], filter)}
Rank(i, filter) == Cardinality({j \in MatchSet(filter) : j < i})
Ascending(s) == \A i, j \in 1..Len(s) : i < j => s[i] < s[j]

\* C5: fetch_data with per_page = n > 0 returns as page p the matching rows
\* of rank (p-1)*n .. p*n-1 in storage order; two different pages share no
\* row, and pages 1..ceil(M/n) together hold each of the M matching rows
\* exactly once.
C5_PagesPartitionMatches ==
  (call.op = "fetch_data" /\ ~call.raised /\ call.per_page > 0) =>
    LET n == call.per_page
        p == call.page
        f == call.filter
        M == Cardinality(MatchSet(f))
        last == (M + n - 1) \div n
        PageOf(q) == FetchRows(table, q, n, f)
    IN /\ Ascending(call.ret)
       /\ Range(call.ret) =
            {i \in MatchSet(f) : (p - 1) * n <= Rank(i, f) /\ Rank(i, f) <= p * n - 1}
       /\ \A q \in 1..(MaxPage + 1) :
            q # p => Range(PageOf(q)) \cap Range(call.ret) = {}
       /\ UNION {Range(PageOf(q)) : q \in 1..last} = MatchSet(f)
       /\ \A q \in 1..last :
            Cardinality(Range(PageOf(q))) = Len(PageOf(q))

\* The second of three pages of a filtered table.
C5_Witness ==
  /\ call.op = "fetch_data" /\ ~call.raised
  /\ call.per_page = 1 /\ call.page = 2
  /\ call.filter.kind = "eq"
  /\ Cardinality(MatchSet(call.filter)) = 2
  /\ Len(table) = 3
  /\ Len(call.ret) = 1

\* The rows of t that no row before them equals on the subset columns.
Firsts(t, subset) ==
  {i \in 1..Len(t) : \A j \in 1..(i - 1) : Key(t[j], subset) # Key(t[i], subset)}

\* C6: delete_duplicates on N rows of which D repeat an earlier row on the
\* subset columns leaves the N - D first occurrences, in order, and returns
\* D; when D = 0 it returns 0 and does not write the table.
C6_DedupKeepsFirsts ==
  (call.op = "delete_duplicates" /\ ~call.raised) =>
    LET F == Firsts(call.pre, call.subset)
        D == Len(call.pre) - Cardinality(F)
    IN /\ call.ret = D
       /\ Len(table) = Len(call.pre) - D
       /\ \A i \in F : table[Cardinality({j \in F : j <= i})] = call.pre[i]
       /\ D = 0 => (~call.wrote /\ table = call.pre)
       /\ D > 0 => call.wrote

\* A table whose duplicate is not its last row, so that keeping the first
\* occurrence differs from keeping the last.
C6_Witness ==
  /\ call.op = "delete_duplicates" /\ ~call.raised
  /\ call.subset = {"id"}
  /\ Len(call.pre) = 3 /\ call.ret = 1
  /\ call.pre[1].id = call.pre[3].id
  /\ call.pre[1] # call.pre[3]

\* The records among the first n of the batch that address row i.
Addressing(i, n) ==
  {j \in 1..Min(n, Len(call.data)) :
     call.data[j][call.uf] = call.pre[i][call.uf]}
Max(S) == CHOOSE x \in S : \A y \in S : y <= x

\* C7: when the engine fails on the k-th record of update_data, the call
\* raises, records 1..k-1 stay applied in input order (each row holds the
\* fields of the last of them that addresses it), and no record after the
\* k-th is attempted.
C7_UpdateStopsAtFailure ==
  (call.op = "update_data" /\ call.uf # "" /\ call.fail_at > 0) =>
    LET k == call.fail_at
    IN /\ call.raised
       /\ call.attempted = k
       /\ Len(table) = Len(call.pre)
       /\ \A i \in 1..Len(table) : \A f \in Fields :
            table[i][f] =
              IF f = call.uf \/ Addressing(i, k - 1) = {}
              THEN call.pre[i][f]
              ELSE call.data[Max(Addressing(i, k - 1))][f]

\* The second of three records fails after the first changed the table; the
\* third would have changed it as well.
C7_Witness ==
  /\ call.op = "update_data" /\ call.uf = "id" /\ call.fail_at = 2
  /\ Len(call.data) = 3
  /\ table # call.pre
  /\ TableUpdate(table, Updates(call.data[3], "id"),
                 WhereClause("id", call.data[3].id)) # table

\* C9: across any sequence of vector_search calls the embedder is
\* constructed at most once: a call that finds the field unset constructs and
\* stores it, and once set the field never changes and later calls use it.
C9_EmbedderConstructedOnce ==
  [][/\ constructed' <= 1
     /\ embedder # 0 => (embedder' = embedder /\ constructed' = constructed)
     /\ (embedder = 0 /\ embedder' # 0) =>
          (constructed' = constructed + 1 /\ call'.op = "vector_search"
           /\ call'.used = embedder')
     /\ (embedder # 0 /\ call'.op = "vector_search" /\ call'.used # 0) =>
          call'.used = embedder]_vars

\* A later call that found the embedder set and used it.
C9_Witness ==
  /\ call.op = "vector_search" /\ ~call.raised
  /\ call.had # 0 /\ call.used = call.had
  /\ constructed = 1

\* C10: from a table with no repeated unique-field value, non-concurrent
\* add_data calls (batches without repeated values), update_data calls and
\* delete_rows calls on the same unique field leave no two rows with the same
\* unique-field value; update_data changes neither the number of rows nor
\* any row's unique-field value.
C10_UniqueFieldStaysUnique ==
  /\ [](NoRepeat(table, "id"))
  /\ [][call'.op = "update_data" =>
          /\ Len(table') = Len(table)
          /\ \A i \in 1..Len(table) : table'[i].id = table[i].id]_vars

\* Two rows after add_data, update_data and delete_rows have all run, the
\* last call an update that changed a row.
C10_Witness ==
  /\ call.op = "update_data" /\ ~call.raised
  /\ {"add_data", "update_data", "delete_rows"} \subseteq call.seen
  /\ Len(table) = 2

\* C4: add_data checks and then writes without isolation: when both callers
\* hold a new unique-field value v in their batches and neither read v in its
\* scan, both append, and the table ends with one row per record of the two
\* batches that holds v (at least two).
C4_BothCallersAppend ==
  \A v \in Ids :
    (\A p \in Callers :
        /\ procs[p].pc = "done"
        /\ v \in Column(procs[p].data, "id")
        /\ v \notin Range(procs[p].existing))
    => /\ Count(table, "id", v) >= 2
       /\ Count(table, "id", v) >= Count(procs[1].data, "id", v)
                                     + Count(procs[2].data, "id", v)

\* Both callers scanned the empty table before either appended.
C4_Witness ==
  /\ \A p \in Callers : procs[p].pc = "done" /\ procs[p].existing = <<>>
                        /\ Len(procs[p].data) = 1
  /\ procs[1].data[1].id = procs[2].data[1].id
  /\ Len(table) = 2
  /\ table[1].id = table[2].id
====
